---------------------------- MODULE Spec2Model ----------------------------
(***************************************************************************)
(* Model of pi_microsleep_hard.c: the one-time mapping of the BCM system   *)
(* timer (setup_microsleep_hard) and the spin-wait on its free-running     *)
(* 32-bit counter clo (microsleep_hard).                                   *)
(*                                                                         *)
(* Each thread executes the two functions statement by statement; pc[t]    *)
(* names the statement it is about to execute.  The hardware counter is    *)
(* an environment process (Tick).  The platform resolver and the           *)
(* peripheral mapper are external: each invocation answers                 *)
(* nondeterministically.                                                   *)
(*                                                                         *)
(* A uint32_t is a pair <<hi, lo>> of 16-bit halves (value hi*2^16 + lo),  *)
(* so that the arithmetic keeps its 32-bit width.                          *)
(***************************************************************************)
EXTENDS Integers, Sequences, FiniteSets, TLC

VARIABLES
    config_flag,          \* static int config_flag
    sys_timer_virt_addr,  \* volatile uintptr_t *sys_timer_virt_addr
    sys_timer_reg,        \* static volatile struct sys_timer_reg_map *
    clo,                  \* the hardware register clo behind the mapping
    pc,                   \* per thread: the statement about to execute
    caller,               \* per thread: who called setup_microsleep_hard
    fn,                   \* per thread: the public function last called
    pi_version,           \* per thread: local of setup_microsleep_hard
    sys_timer_phys_addr,  \* per thread: local of setup_microsleep_hard
    usec,                 \* per thread: argument of microsleep_hard
    timout,               \* per thread: local of microsleep_hard
    ret,                  \* per thread: value returned to the caller
    lazyRet,              \* history: status of the lazy setup call (discarded)
    sRun,                 \* history: the latest run of setup_microsleep_hard
    start,                \* history: value read when timout was computed
    lastRead,             \* history: value the latest read of clo observed
    nReads,               \* history: reads of clo in this call (saturating)
    nSpins,               \* history: loop checks that were true (saturating)
    access,               \* history: the timer register accesses made so far
    mapLog,               \* history: the result of each map_peripheral__ call
    mapArg,               \* history: the argument of the latest such call
    nResolve,             \* history: invocations of get_pi_version__
    nUnsupported,         \* history: resolver answers outside 0..5
    calls,                \* history: public calls made so far
    ticks,                \* history: counter ticks since the latest start read
    crashed,              \* the process was killed by a fault
    live                  \* the threads that make calls

globals == <<config_flag, sys_timer_virt_addr, sys_timer_reg>>
locals  == <<pi_version, sys_timer_phys_addr, usec, timout>>
control == <<pc, caller, fn, ret>>
sleepH  == <<start, lastRead, nReads, nSpins, access>>
setupH  == <<lazyRet, sRun, mapLog, mapArg, nResolve, nUnsupported>>
vars    == <<globals, clo, locals, control, sleepH, setupH, calls, ticks,
             crashed, live>>

----------------------------------------------------------------------------
(* Bounds *)

\* The largest delay (usec) passed to microsleep_hard.
MaxDelay == 2

\* Ticks the counter may make during one call beyond the largest delay.
MaxSlack == 2

\* Public calls made in one run.
MaxCalls == 2

\* Where the read and spin counters saturate.
MaxCount == 2

\* How far below 2^32 - 1 the counter may start.
StartSpread == 2

\* Ticks available to one call: never fewer than its delay.
MaxTicks == MaxDelay + MaxSlack

Threads == {"t1", "t2"}

----------------------------------------------------------------------------
(* uint32_t arithmetic *)

Half == 65536

U32 == (0 .. Half - 1) \X (0 .. Half - 1)

ToU32(n) == <<(n \div Half) % Half, n % Half>>

UINT32_MAX == <<Half - 1, Half - 1>>

Add32(a, b) ==
    LET lo == a[2] + b[2]
    IN  <<(a[1] + b[1] + (lo \div Half)) % Half, lo % Half>>

Sub32(a, b) ==
    LET lo == a[2] - b[2]
    IN  <<(a[1] - b[1] - (IF lo < 0 THEN 1 ELSE 0)) % Half, lo % Half>>

Lt32(a, b) == a[1] < b[1] \/ (a[1] = b[1] /\ a[2] < b[2])

Le32(a, b) == a = b \/ Lt32(a, b)

Inc(n) == IF n < MaxCount THEN n + 1 ELSE n

----------------------------------------------------------------------------
(* Values *)

NULL == 0

MAP_FAILED == -1

\* The answers of get_pi_version__: the six supported generations and one
\* value on either side of them.
PiVersions == -1 .. 6

Supported == 0 .. 5

Delays == {ToU32(d) : d \in 0 .. MaxDelay}

\* Counter values at the start of a run: around the wrap and at the carry
\* between the two halves.
StartVals ==
    {Sub32(UINT32_MAX, ToU32(k)) : k \in 0 .. StartSpread}
        \cup {ToU32(0), ToU32(Half - 1)}

\* What a read through a pointer that maps nothing may yield.
Garbage == {ToU32(0), UINT32_MAX}

NoRun == [queried |-> FALSE, supported |-> TRUE, maps |-> 0,
          status |-> "none", entry |-> <<0, NULL, NULL>>]

----------------------------------------------------------------------------
(* setup_microsleep_hard *)

\* The statuses setup_microsleep_hard returns.
RET_OK == "0"

RET_ENOPIVER == "-ENOPIVER"

RET_MAP_FAILED == "(int) MAP_FAILED"

BaseOf_ThreeWithOne(v) ==
    IF v = 0 \/ v = 1 \/ v = 3 THEN "BCM2835_PERI_BASE_PHYS_ADDR"
    ELSE IF v = 2 THEN "BCM2837_PERI_BASE_PHYS_ADDR"
    ELSE IF v = 4 THEN "BCM2711_PERI_BASE_PHYS_ADDR"
    ELSE IF v = 5 THEN "BCM2712_PERI_BASE_PHYS_ADDR"
    ELSE "none"

BaseOf_NoElse(v) ==
    IF v = 0 \/ v = 1 THEN "BCM2835_PERI_BASE_PHYS_ADDR"
    ELSE IF v = 2 \/ v = 3 THEN "BCM2837_PERI_BASE_PHYS_ADDR"
    ELSE IF v = 4 THEN "BCM2711_PERI_BASE_PHYS_ADDR"
    ELSE "BCM2712_PERI_BASE_PHYS_ADDR"

\* The if/else chain choosing the peripheral base of a generation.
BaseOf(v) ==
    IF v = 0 \/ v = 1 THEN "BCM2835_PERI_BASE_PHYS_ADDR"
    ELSE IF v = 2 \/ v = 3 THEN "BCM2837_PERI_BASE_PHYS_ADDR"
    ELSE IF v = 4 THEN "BCM2711_PERI_BASE_PHYS_ADDR"
    ELSE IF v = 5 THEN "BCM2712_PERI_BASE_PHYS_ADDR"
    ELSE "none"

TimerAddr(base) == <<base, "BCM_SYS_TIMER_BASE_OFFSET">>

NoAddr == <<"none", "none">>

AlreadySetup_Inverted(flag) == flag = 0

AlreadySetup_Never(flag) == FALSE

\* The guard of the first statement: skip everything when already set up.
AlreadySetup(flag) == flag # 0

MapFailed_Never(p) == FALSE

MapFailed_WrongSentinel(p) == p = NULL

\* The test of the mapper's result.
MapFailed(p) == p = MAP_FAILED

\* Entering setup_microsleep_hard from `from` ("top" or "lazy").
EnterSetup(t, from) ==
    /\ pc' = [pc EXCEPT ![t] = "s_check"]
    /\ caller' = [caller EXCEPT ![t] = from]
    /\ sRun' = [sRun EXCEPT ![t] =
                  [NoRun EXCEPT !.status = "running", !.entry = globals]]

\* A return of setup_microsleep_hard with status v.  The explicit caller
\* receives v; microsleep_hard drops it and goes on to read the counter.
SetupReturn(t, v) ==
    /\ sRun' = [sRun EXCEPT ![t].status = v]
    /\ pi_version' = [pi_version EXCEPT ![t] = 0]
    /\ sys_timer_phys_addr' = [sys_timer_phys_addr EXCEPT ![t] = NoAddr]
    /\ IF caller[t] = "top"
       THEN /\ pc' = [pc EXCEPT ![t] = "idle"]
            /\ ret' = [ret EXCEPT ![t] = v]
            /\ lazyRet' = lazyRet
       ELSE /\ pc' = [pc EXCEPT ![t] = "m_read"]
            /\ ret' = ret
            /\ lazyRet' = [lazyRet EXCEPT ![t] = v]
    /\ caller' = [caller EXCEPT ![t] = "none"]

Running(t) == t \in live /\ ~crashed

\* Thread t may make a public call.  When two threads run, each makes one
\* call, its first.
MayCall(t) ==
    /\ pc[t] = "idle"
    /\ calls < MaxCalls
    /\ Cardinality(live) > 1 => fn[t] = "none"

CallSetup(t) ==
    /\ Running(t)
    /\ MayCall(t)
    /\ calls' = calls + 1
    /\ fn' = [fn EXCEPT ![t] = "setup"]
    /\ ret' = [ret EXCEPT ![t] = "running"]
    /\ lazyRet' = [lazyRet EXCEPT ![t] = "none"]
    /\ usec' = [usec EXCEPT ![t] = ToU32(0)]
    /\ timout' = [timout EXCEPT ![t] = ToU32(0)]
    /\ start' = [start EXCEPT ![t] = ToU32(0)]
    /\ lastRead' = [lastRead EXCEPT ![t] = ToU32(0)]
    /\ nReads' = [nReads EXCEPT ![t] = 0]
    /\ nSpins' = [nSpins EXCEPT ![t] = 0]
    /\ EnterSetup(t, "top")
    /\ UNCHANGED <<globals, clo, pi_version, sys_timer_phys_addr, access,
                   mapLog, mapArg, nResolve, nUnsupported, ticks, crashed,
                   live>>

\* if (config_flag) return 0;
SetupCheck(t) ==
    /\ Running(t)
    /\ pc[t] = "s_check"
    /\ IF AlreadySetup(config_flag)
       THEN SetupReturn(t, RET_OK)
       ELSE /\ pc' = [pc EXCEPT ![t] = "s_getver"]
            /\ UNCHANGED <<caller, ret, lazyRet, sRun, pi_version,
                           sys_timer_phys_addr>>
    /\ UNCHANGED <<globals, clo, usec, timout, fn, sleepH, mapLog, mapArg,
                   nResolve, nUnsupported, calls, ticks, crashed, live>>

\* pi_version = get_pi_version__();
SetupGetVersion(t) ==
    /\ Running(t)
    /\ pc[t] = "s_getver"
    /\ \E v \in PiVersions :
        /\ pi_version' = [pi_version EXCEPT ![t] = v]
        /\ sRun' = [sRun EXCEPT ![t].queried = TRUE,
                                ![t].supported = v \in Supported]
        /\ nUnsupported' = IF v \in Supported THEN nUnsupported
                           ELSE nUnsupported + 1
    /\ nResolve' = nResolve + 1
    /\ pc' = [pc EXCEPT ![t] = "s_dispatch"]
    /\ UNCHANGED <<globals, clo, sys_timer_phys_addr, usec, timout, caller,
                   fn, ret, sleepH, lazyRet, mapLog, mapArg, calls, ticks,
                   crashed, live>>

\* The if/else chain on pi_version and the addition of the timer offset.
SetupDispatch(t) ==
    /\ Running(t)
    /\ pc[t] = "s_dispatch"
    /\ IF BaseOf(pi_version[t]) = "none"
       THEN SetupReturn(t, RET_ENOPIVER)
       ELSE /\ sys_timer_phys_addr' =
                  [sys_timer_phys_addr EXCEPT
                      ![t] = TimerAddr(BaseOf(pi_version[t]))]
            /\ pc' = [pc EXCEPT ![t] = "s_map"]
            /\ UNCHANGED <<caller, ret, lazyRet, sRun, pi_version>>
    /\ UNCHANGED <<globals, clo, usec, timout, fn, sleepH, mapLog, mapArg,
                   nResolve, nUnsupported, calls, ticks, crashed, live>>

SetupMap_InstallsAtOnce(t) ==
    /\ Running(t)
    /\ pc[t] = "s_map"
    /\ \E p \in {MAP_FAILED, Len(mapLog) + 1} :
        /\ sys_timer_virt_addr' = p
        /\ sys_timer_reg' = p
        /\ mapLog' = Append(mapLog, p)
    /\ mapArg' = sys_timer_phys_addr[t]
    /\ sRun' = [sRun EXCEPT ![t].maps = @ + 1]
    /\ pc' = [pc EXCEPT ![t] = "s_mapchk"]
    /\ UNCHANGED <<config_flag, clo, locals, caller, fn, ret, sleepH,
                   lazyRet, nResolve, nUnsupported, calls, ticks, crashed,
                   live>>

\* sys_timer_virt_addr = map_peripheral__(sys_timer_phys_addr);
\* A successful invocation returns a mapping of its own: the k-th
\* invocation returns the pointer k.
SetupMap(t) ==
    /\ Running(t)
    /\ pc[t] = "s_map"
    /\ \E p \in {MAP_FAILED, Len(mapLog) + 1} :
        /\ sys_timer_virt_addr' = p
        /\ mapLog' = Append(mapLog, p)
    /\ mapArg' = sys_timer_phys_addr[t]
    /\ sRun' = [sRun EXCEPT ![t].maps = @ + 1]
    /\ pc' = [pc EXCEPT ![t] = "s_mapchk"]
    /\ UNCHANGED <<config_flag, sys_timer_reg, clo, locals, caller, fn, ret,
                   sleepH, lazyRet, nResolve, nUnsupported, calls, ticks,
                   crashed, live>>

\* if ((void *) sys_timer_virt_addr == MAP_FAILED) return (int) MAP_FAILED;
SetupMapCheck(t) ==
    /\ Running(t)
    /\ pc[t] = "s_mapchk"
    /\ IF MapFailed(sys_timer_virt_addr)
       THEN SetupReturn(t, RET_MAP_FAILED)
       ELSE /\ pc' = [pc EXCEPT ![t] = "s_setflag"]
            /\ UNCHANGED <<caller, ret, lazyRet, sRun, pi_version,
                           sys_timer_phys_addr>>
    /\ UNCHANGED <<globals, clo, usec, timout, fn, sleepH, mapLog, mapArg,
                   nResolve, nUnsupported, calls, ticks, crashed, live>>

\* config_flag = 1;
SetupSetFlag(t) ==
    /\ Running(t)
    /\ pc[t] = "s_setflag"
    /\ config_flag' = 1
    /\ pc' = [pc EXCEPT ![t] = "s_setreg"]
    /\ UNCHANGED <<sys_timer_virt_addr, sys_timer_reg, clo, locals, caller,
                   fn, ret, sleepH, setupH, calls, ticks, crashed, live>>

\* sys_timer_reg = (...) (sys_timer_virt_addr); return 0;
SetupSetReg(t) ==
    /\ Running(t)
    /\ pc[t] = "s_setreg"
    /\ sys_timer_reg' = sys_timer_virt_addr
    /\ SetupReturn(t, RET_OK)
    /\ UNCHANGED <<config_flag, sys_timer_virt_addr, clo, usec, timout, fn,
                   sleepH, mapLog, mapArg, nResolve, nUnsupported, calls,
                   ticks, crashed, live>>

----------------------------------------------------------------------------
(* microsleep_hard *)

\* A pointer that was never installed, or the mapper's failure sentinel,
\* maps nothing.
Unmapped(p) == p \in {NULL, MAP_FAILED}

\* What a read of p->clo may observe.  Through a pointer that maps nothing
\* the read is undefined, and yields a fault (ReadFaults) or some value.
ReadVals(p) == IF Unmapped(p) THEN Garbage ELSE {clo}

ReadFaults(p) == Unmapped(p)

\* timout = sys_timer_reg->clo + usec, in uint32_t.
Target(v, d) == Add32(v, d)

LoopCond_OneEarly(v, target) == Lt32(Add32(v, ToU32(1)), target)

LoopCond_UntilEqual(v, target) == v # target

\* The condition of the spin loop: sys_timer_reg->clo < timout.
LoopCond(v, target) == Lt32(v, target)

TargetAccess_Interrupt ==
    {<<"cs", "write">>, <<"clo", "read">>, <<"c3", "write">>}

\* The register accesses of timout = sys_timer_reg->clo + usec.
TargetAccess == {<<"clo", "read">>}

\* The register accesses of one check of sys_timer_reg->clo < timout.
PollAccess == {<<"clo", "read">>}

\* The guard of the lazy setup: !(config_flag).
NeedsSetup(flag) == flag = 0

\* The delays a call may ask for.  When two threads run, the delay is 0:
\* there the statements of the initialiser are what interleaves.
CallDelays == IF Cardinality(live) > 1 THEN {ToU32(0)} ELSE Delays

Fault(t) ==
    /\ ReadFaults(sys_timer_reg)
    /\ crashed' = TRUE
    /\ pc' = [pc EXCEPT ![t] = "fault"]
    /\ nReads' = [nReads EXCEPT ![t] = Inc(@)]

CallMicrosleep(t) ==
    /\ Running(t)
    /\ MayCall(t)
    /\ calls' = calls + 1
    /\ \E d \in CallDelays : usec' = [usec EXCEPT ![t] = d]
    /\ timout' = [timout EXCEPT ![t] = ToU32(0)]
    /\ start' = [start EXCEPT ![t] = ToU32(0)]
    /\ lastRead' = [lastRead EXCEPT ![t] = ToU32(0)]
    /\ nReads' = [nReads EXCEPT ![t] = 0]
    /\ nSpins' = [nSpins EXCEPT ![t] = 0]
    /\ fn' = [fn EXCEPT ![t] = "microsleep"]
    /\ ret' = [ret EXCEPT ![t] = "running"]
    /\ lazyRet' = [lazyRet EXCEPT ![t] = "none"]
    /\ pc' = [pc EXCEPT ![t] = "m_check"]
    /\ UNCHANGED <<globals, clo, pi_version, sys_timer_phys_addr, caller,
                   access, sRun, mapLog, mapArg, nResolve, nUnsupported,
                   ticks, crashed, live>>

\* if (!(config_flag)) { setup_microsleep_hard(); }
MicrosleepCheck(t) ==
    /\ Running(t)
    /\ pc[t] = "m_check"
    /\ IF NeedsSetup(config_flag)
       THEN EnterSetup(t, "lazy")
       ELSE /\ pc' = [pc EXCEPT ![t] = "m_read"]
            /\ UNCHANGED <<caller, sRun>>
    /\ UNCHANGED <<globals, clo, locals, fn, ret, sleepH, lazyRet, mapLog,
                   mapArg, nResolve, nUnsupported, calls, ticks, crashed,
                   live>>

\* timout = sys_timer_reg->clo + usec;
MicrosleepRead(t) ==
    /\ Running(t)
    /\ pc[t] = "m_read"
    /\ \/ /\ \E v \in ReadVals(sys_timer_reg) :
                /\ timout' = [timout EXCEPT ![t] = Target(v, usec[t])]
                /\ start' = [start EXCEPT ![t] = v]
                /\ lastRead' = [lastRead EXCEPT ![t] = v]
          /\ nReads' = [nReads EXCEPT ![t] = Inc(@)]
          /\ pc' = [pc EXCEPT ![t] = "m_loop"]
          /\ ticks' = 0
          /\ UNCHANGED crashed
       \/ /\ Fault(t)
          /\ UNCHANGED <<timout, start, lastRead, ticks>>
    /\ access' = access \cup TargetAccess
    /\ UNCHANGED <<globals, clo, pi_version, sys_timer_phys_addr, usec,
                   caller, fn, ret, nSpins, setupH, calls, live>>

\* while (sys_timer_reg->clo < timout); return 0;
MicrosleepLoop(t) ==
    /\ Running(t)
    /\ pc[t] = "m_loop"
    /\ \/ /\ \E v \in ReadVals(sys_timer_reg) :
                /\ lastRead' = [lastRead EXCEPT ![t] = v]
                /\ IF LoopCond(v, timout[t])
                   THEN /\ nSpins' = [nSpins EXCEPT ![t] = Inc(@)]
                        /\ UNCHANGED <<pc, ret>>
                   ELSE /\ pc' = [pc EXCEPT ![t] = "idle"]
                        /\ ret' = [ret EXCEPT ![t] = RET_OK]
                        /\ UNCHANGED nSpins
          /\ nReads' = [nReads EXCEPT ![t] = Inc(@)]
          /\ UNCHANGED crashed
       \/ /\ Fault(t)
          /\ UNCHANGED <<lastRead, nSpins, ret>>
    /\ access' = access \cup PollAccess
    /\ UNCHANGED <<globals, clo, locals, caller, fn, start, setupH, calls,
                   ticks, live>>

----------------------------------------------------------------------------
(* The free-running counter *)

\* One tick of the counter, modulo 2^32.  The counter is observed only by a
\* thread between its first read and its return, so only there do its
\* ticks take a step of their own; elsewhere they are part of the choice of
\* the starting value.
Tick ==
    /\ ~crashed
    /\ \E t \in Threads : pc[t] = "m_loop"
    /\ ticks < MaxTicks
    /\ clo' = Add32(clo, ToU32(1))
    /\ ticks' = ticks + 1
    /\ UNCHANGED <<globals, locals, control, sleepH, setupH, calls, crashed,
                   live>>

----------------------------------------------------------------------------
(* Specifications *)

InitState ==
    /\ config_flag = 0
    /\ sys_timer_virt_addr = NULL
    /\ sys_timer_reg = NULL
    /\ clo \in StartVals
    /\ pc = [t \in Threads |-> "idle"]
    /\ caller = [t \in Threads |-> "none"]
    /\ fn = [t \in Threads |-> "none"]
    /\ pi_version = [t \in Threads |-> 0]
    /\ sys_timer_phys_addr = [t \in Threads |-> NoAddr]
    /\ usec = [t \in Threads |-> ToU32(0)]
    /\ timout = [t \in Threads |-> ToU32(0)]
    /\ ret = [t \in Threads |-> "none"]
    /\ lazyRet = [t \in Threads |-> "none"]
    /\ sRun = [t \in Threads |-> NoRun]
    /\ start = [t \in Threads |-> ToU32(0)]
    /\ lastRead = [t \in Threads |-> ToU32(0)]
    /\ nReads = [t \in Threads |-> 0]
    /\ nSpins = [t \in Threads |-> 0]
    /\ access = {}
    /\ mapLog = <<>>
    /\ mapArg = NoAddr
    /\ nResolve = 0
    /\ nUnsupported = 0
    /\ calls = 0
    /\ ticks = 0
    /\ crashed = FALSE

\* One thread makes all the calls.
Init == InitState /\ live = {"t1"}

Step(t) ==
    \/ CallSetup(t)
    \/ SetupCheck(t)
    \/ SetupGetVersion(t)
    \/ SetupDispatch(t)
    \/ SetupMap(t)
    \/ SetupMapCheck(t)
    \/ SetupSetFlag(t)
    \/ SetupSetReg(t)
    \/ CallMicrosleep(t)
    \/ MicrosleepCheck(t)
    \/ MicrosleepRead(t)
    \/ MicrosleepLoop(t)

Next == Tick \/ \E t \in Threads : Step(t)

Spec == Init /\ [][Next]_vars

\* The counter keeps advancing and a thread inside the loop keeps polling.
LiveSpec ==
    Spec /\ WF_vars(Tick) /\ \A t \in Threads : WF_vars(MicrosleepLoop(t))

\* Two threads make the calls, with no synchronisation between them; the
\* counter starts at its largest value.
InitMT == InitState /\ live = Threads /\ clo = UINT32_MAX

SpecMT == InitMT /\ [][Next]_vars

TypeOK ==
    /\ config_flag \in {0, 1}
    /\ sys_timer_virt_addr \in {NULL, MAP_FAILED} \cup (1 .. MaxCalls)
    /\ sys_timer_reg \in {NULL, MAP_FAILED} \cup (1 .. MaxCalls)
    /\ clo \in U32
    /\ \A t \in Threads :
        /\ usec[t] \in Delays
        /\ timout[t] \in U32
        /\ pi_version[t] \in PiVersions
        /\ nReads[t] \in 0 .. MaxCount
        /\ nSpins[t] \in 0 .. MaxCount
    /\ Len(mapLog) <= MaxCalls
    /\ calls \in 0 .. MaxCalls
    /\ ticks \in 0 .. MaxTicks

----------------------------------------------------------------------------
(* Properties *)

Last(q) == q[Len(q)]

\* The overlay pointer in use points at the timer registers.
Mapped == ~Unmapped(sys_timer_reg)

\* start + d does not fit in 32 bits.
Wraps(s, d) == Lt32(Sub32(UINT32_MAX, s), d)

\* Thread t has returned from microsleep_hard.
Slept(t) == fn[t] = "microsleep" /\ pc[t] = "idle" /\ ret[t] = RET_OK

\* Thread t has returned from an explicit call of setup_microsleep_hard.
SetUp(t) == fn[t] = "setup" /\ pc[t] = "idle"

\* The latest run of setup_microsleep_hard by t is over.
RunOver(t) == sRun[t].status \notin {"none", "running"}

LazyFailed(t) ==
    fn[t] = "microsleep" /\ lazyRet[t] \in {RET_ENOPIVER, RET_MAP_FAILED}

\* Every resolver answer so far was supported and every mapping succeeded.
AllGood ==
    /\ nUnsupported = 0
    /\ \A i \in 1 .. Len(mapLog) : mapLog[i] # MAP_FAILED

\* C1: when the lazy setup inside microsleep_hard fails, microsleep_hard
\* returns that status and never reads the counter register.
C1_LazyFailurePropagated ==
    \A t \in Threads :
        LazyFailed(t) =>
            /\ nReads[t] = 0
            /\ pc[t] = "idle" => ret[t] = lazyRet[t]

\* C2: with a supported platform and a mapper that succeeds, any number of
\* completed setup calls leaves exactly one mapper invocation, and a call
\* after the first returns 0 without querying the resolver, without
\* mapping and without changing config_flag, sys_timer_virt_addr or
\* sys_timer_reg.
C2_SetupIdempotent ==
    \A t \in Threads :
        (AllGood /\ SetUp(t)) =>
            /\ Len(mapLog) = 1
            /\ ret[t] = RET_OK
            /\ calls >= 2 =>
                /\ ~sRun[t].queried
                /\ sRun[t].maps = 0
                /\ nResolve = 1
                /\ globals = sRun[t].entry
                /\ config_flag = 1

C2_Witness ==
    AllGood /\ SetUp("t1") /\ calls = 2 /\ nResolve = 1
        /\ sRun["t1"].entry = <<1, 1, 1>>

\* C3 as claimed: map_peripheral__ is executed at most once per process,
\* whatever the resolver and the mapper answer.
C3_MapperInvokedAtMostOnce == Len(mapLog) <= 1

\* C3 as amended: map_peripheral__ succeeds at most once per process and is
\* never invoked again after it has succeeded; an invocation that failed may
\* be followed by another.
C3_MapperSucceedsAtMostOnce ==
    \A i \in 1 .. Len(mapLog) : mapLog[i] # MAP_FAILED => i = Len(mapLog)

C3_Witness ==
    /\ Len(mapLog) = 2
    /\ mapLog[1] = MAP_FAILED
    /\ mapLog[2] # MAP_FAILED
    /\ config_flag = 1
    /\ SetUp("t1")

\* C4: when start + d does not overflow, microsleep_hard returns only at a
\* poll that observed clo >= start + d.
C4_ReturnsAtOrAfterTarget ==
    \A t \in Threads :
        (Slept(t) /\ ~Wraps(start[t], usec[t])) =>
            /\ Le32(Add32(start[t], usec[t]), lastRead[t])
            /\ nReads[t] >= 2

C4_Witness ==
    /\ Slept("t1")
    /\ Mapped
    /\ ~Wraps(start["t1"], usec["t1"])
    /\ usec["t1"] = ToU32(2)
    /\ nSpins["t1"] >= 1
    /\ lastRead["t1"] = Add32(start["t1"], usec["t1"])

\* C5: when start + d crosses 2^32, microsleep_hard does not return until
\* d ticks have elapsed: (clo - start) mod 2^32 >= d at the exiting poll.
C5_WrapWaitsFullDelay ==
    \A t \in Threads :
        (Slept(t) /\ Mapped /\ Wraps(start[t], usec[t])) =>
            Le32(usec[t], Sub32(lastRead[t], start[t]))

\* Thread t spins on a mapped counter towards a target that crossed 2^32.
WrapSpin(t) ==
    /\ pc[t] = "m_loop"
    /\ Mapped
    /\ Wraps(start[t], usec[t])

\* C6: with the counter near 2^32 and a small delay whose target crosses
\* the wrap, the spin loop terminates while the counter keeps advancing.
C6_WrapLoopTerminates ==
    \A t \in Threads : WrapSpin(t) ~> pc[t] # "m_loop"

C6_Witness == WrapSpin("t1") /\ nSpins["t1"] >= 1 /\ Lt32(clo, timout["t1"])

\* C7: with delay 0 the loop condition is false at its first check, however
\* the counter advanced since the read that formed the target.
C7_ZeroDelayNeverSpins ==
    \A t \in Threads :
        (fn[t] = "microsleep" /\ Mapped /\ usec[t] = ToU32(0))
            => nSpins[t] = 0

\* C8: when the resolver answers outside 0..5, setup_microsleep_hard returns
\* -ENOPIVER, does not invoke the mapper, and config_flag stays 0.
C8_UnsupportedPlatform ==
    \A t \in Threads :
        (sRun[t].queried /\ ~sRun[t].supported) =>
            /\ sRun[t].maps = 0
            /\ config_flag = 0
            /\ sRun[t].status \in {"running", RET_ENOPIVER}
            /\ sRun[t].status = "running" => pc[t] = "s_dispatch"
            /\ SetUp(t) => ret[t] = RET_ENOPIVER

C8_Witness ==
    /\ SetUp("t1")
    /\ sRun["t1"].queried
    /\ ~sRun["t1"].supported
    /\ ret["t1"] = RET_ENOPIVER
    /\ mapLog = <<>>

\* The latest run of setup_microsleep_hard by t invoked the mapper, which
\* failed.
MapperFailedIn(t) ==
    sRun[t].maps = 1 /\ Len(mapLog) > 0 /\ Last(mapLog) = MAP_FAILED

\* C9: when the mapper fails, setup_microsleep_hard returns the
\* MappingFailed status and config_flag stays 0; a later setup call queries
\* the resolver again and, the platform being supported, maps again.
C9_MapperFailureRetried ==
    \A t \in Threads :
        /\ (MapperFailedIn(t) /\ pc[t] # "s_mapchk") =>
                /\ sRun[t].status = RET_MAP_FAILED
                /\ config_flag = 0
                /\ SetUp(t) => ret[t] = RET_MAP_FAILED
        /\ (sRun[t].entry[2] = MAP_FAILED /\ RunOver(t)) =>
                /\ sRun[t].entry[1] = 0
                /\ sRun[t].queried
                /\ sRun[t].supported => sRun[t].maps = 1

C9_Witness ==
    /\ SetUp("t1")
    /\ sRun["t1"].entry[2] = MAP_FAILED
    /\ sRun["t1"].queried
    /\ sRun["t1"].maps = 1
    /\ Len(mapLog) = 2
    /\ mapLog[1] = MAP_FAILED
    /\ ret["t1"] = RET_OK

\* Thread t is in a run of setup_microsleep_hard whose resolver answer was
\* supported and whose mapper invocation succeeded.
GoodRun(t) ==
    /\ sRun[t].status = "running"
    /\ sRun[t].queried
    /\ sRun[t].supported
    /\ sRun[t].maps = 1
    /\ Last(mapLog) # MAP_FAILED
    /\ sys_timer_virt_addr = Last(mapLog)

\* C10: config_flag never goes back from 1 to 0, and it goes from 0 to 1
\* only in a setup run whose platform was supported and whose mapping
\* succeeded.
C10_FlagOneWay ==
    [][/\ config_flag = 1 => config_flag' = 1
       /\ (config_flag = 0 /\ config_flag' = 1) =>
            \E t \in Threads : pc[t] = "s_setflag" /\ GoodRun(t)]_vars

C10_Witness ==
    /\ config_flag = 1
    /\ Slept("t1")
    /\ lazyRet["t1"] = RET_OK
    /\ calls = 2

\* C11: a poll that finds at least d ticks elapsed since start ends the
\* loop: a thread still spinning on a mapped counter after a poll saw, at
\* that poll, (clo - start) mod 2^32 < d.  Stated for d >= 1; d = 0 is the
\* case of C7.
C11_PollPastDelayEndsLoop ==
    \A t \in Threads :
        (/\ pc[t] = "m_loop"
         /\ Mapped
         /\ nSpins[t] >= 1
         /\ usec[t] # ToU32(0)) =>
            Lt32(Sub32(lastRead[t], start[t]), usec[t])

\* The successful invocations of map_peripheral__ so far.
Mappings == {i \in 1 .. Len(mapLog) : mapLog[i] # MAP_FAILED}

\* The statements of setup_microsleep_hard after the config_flag check.
PastCheck ==
    {"s_getver", "s_dispatch", "s_map", "s_mapchk", "s_setflag", "s_setreg"}

\* C12: two threads making first-time calls can both pass the config_flag
\* check before either sets the flag, and the mapper is then invoked twice
\* (C12_Witness is that state).  It takes that race to map twice: a thread
\* past the check entered setup_microsleep_hard while config_flag was 0,
\* and a thread alone past the check after a mapping has succeeded finds
\* config_flag still 0 or set by another thread.
C12_DoubleMapIsARace ==
    \A t \in Threads :
        pc[t] \in PastCheck =>
            /\ sRun[t].entry[1] = 0
            /\ sRun[t].maps <= 1
            /\ Cardinality(Mappings) <= Cardinality(live)

C12_Witness ==
    /\ Len(mapLog) = 2
    /\ Cardinality(Mappings) = 2
    /\ \A t \in Threads :
        /\ sRun[t].entry[1] = 0
        /\ sRun[t].maps = 1
    /\ pc["t1"] = "s_mapchk"
    /\ pc["t2"] = "idle"
    /\ ret["t2"] = RET_OK
    /\ config_flag = 1

\* C13: at every statement boundary config_flag = 1 implies that
\* sys_timer_reg holds the pointer of a successful mapper call, so a thread
\* in microsleep_hard that found config_flag = 1 (and so ran no lazy setup)
\* reads clo through an installed pointer.
C13_FlagImpliesRegInstalled ==
    /\ config_flag = 1 =>
            \E i \in Mappings : sys_timer_reg = mapLog[i]
    /\ \A t \in Threads :
            (fn[t] = "microsleep" /\ lazyRet[t] = "none"
                /\ pc[t] \in {"m_read", "m_loop", "fault"}) => Mapped

\* The latest run of setup_microsleep_hard by t returned a failure.
RunFailed(t) == sRun[t].status \in {RET_ENOPIVER, RET_MAP_FAILED}

\* C14 as claimed: a failed call of setup_microsleep_hard leaves
\* config_flag, sys_timer_virt_addr and sys_timer_reg as they were.
C14_FailureChangesNothing ==
    \A t \in Threads : RunFailed(t) => globals = sRun[t].entry

\* C14 as amended: a failed call leaves config_flag and sys_timer_reg as
\* they were; sys_timer_virt_addr is unchanged when the platform is
\* unsupported and holds MAP_FAILED when the mapper failed.
C14_FailureKeepsFlagAndReg ==
    \A t \in Threads :
        RunFailed(t) =>
            /\ config_flag = sRun[t].entry[1]
            /\ sys_timer_reg = sRun[t].entry[3]
            /\ sRun[t].status = RET_ENOPIVER =>
                    sys_timer_virt_addr = sRun[t].entry[2]
            /\ sRun[t].status = RET_MAP_FAILED =>
                    sys_timer_virt_addr = MAP_FAILED

C14_Witness ==
    /\ SetUp("t1")
    /\ ret["t1"] = RET_MAP_FAILED
    /\ sRun["t1"].entry = <<0, NULL, NULL>>
    /\ globals = <<0, MAP_FAILED, NULL>>

Min(a, b) == IF a < b THEN a ELSE b

\* C15: no timer register is ever written and cs, chi, c0..c3 are never
\* touched: the only accesses are reads of clo, one to form the target and
\* one for each check of the loop condition; setup_microsleep_hard makes
\* none.  (The counts saturate at MaxCount.)
C15_OnlyCloIsRead ==
    /\ access \subseteq {<<"clo", "read">>}
    /\ \A t \in Threads :
        /\ fn[t] = "setup" => nReads[t] = 0
        /\ (fn[t] = "microsleep" /\ pc[t] \notin {"m_loop", "idle", "fault"})
                => nReads[t] = 0
        /\ (fn[t] = "microsleep" /\ pc[t] = "m_loop")
                => nReads[t] = Min(MaxCount, 1 + nSpins[t])
        /\ Slept(t) => nReads[t] = Min(MaxCount, 2 + nSpins[t])
    /\ (calls <= 1 /\ \A t \in Threads : fn[t] # "microsleep")
            => access = {}

C15_Witness ==
    /\ Slept("t1")
    /\ Mapped
    /\ access = {<<"clo", "read">>}
    /\ nReads["t1"] = 2
    /\ nSpins["t1"] = 0

\* The base of each generation, as C16 lists them.
C16_Base ==
    [g \in 0 .. 5 |->
        CASE g \in {0, 1} -> "BCM2835_PERI_BASE_PHYS_ADDR"
          [] g \in {2, 3} -> "BCM2837_PERI_BASE_PHYS_ADDR"
          [] g = 4 -> "BCM2711_PERI_BASE_PHYS_ADDR"
          [] g = 5 -> "BCM2712_PERI_BASE_PHYS_ADDR"]

\* C16: the mapper invocation of a run of setup_microsleep_hard, the only
\* one of that run, is made for a resolver answer g in 0..5 and receives
\* base(g) + BCM_SYS_TIMER_BASE_OFFSET; no other answer leads to one.
C16_MapperArgument ==
    \A t \in Threads :
        /\ pc[t] = "s_mapchk" =>
            /\ pi_version[t] \in 0 .. 5
            /\ sRun[t].maps = 1
            /\ mapArg = <<C16_Base[pi_version[t]],
                          "BCM_SYS_TIMER_BASE_OFFSET">>
        /\ (sRun[t].queried /\ ~sRun[t].supported) => sRun[t].maps = 0
        /\ sRun[t].maps <= 1

C16_Witness ==
    /\ pc["t1"] = "s_mapchk"
    /\ pi_version["t1"] = 3
    /\ mapArg = <<"BCM2837_PERI_BASE_PHYS_ADDR", "BCM_SYS_TIMER_BASE_OFFSET">>
    /\ Len(mapLog) = 1

============================================================================
